---- MODULE Spec2Model ----
(***************************************************************************)
(* The Ojakh recipe API of src/index.js: the request handlers for          *)
(* creating, updating, deleting and searching recipes, run concurrently    *)
(* against one PostgreSQL database (READ COMMITTED, the engine's default). *)
(*                                                                         *)
(* One action is one await of a handler: the database executes the         *)
(* awaited statement and the handler runs on, synchronously, to its next   *)
(* await (JavaScript runs the code between two awaits without              *)
(* interleaving).  A statement that has to wait for a row lock is an       *)
(* action that is not enabled until the lock is free.                      *)
(***************************************************************************)
EXTENDS Integers, Sequences, FiniteSets, TLC

\* Requests issued in one behaviour.
MaxReqs == 3
\* Injected failures (statement errors, lost connections) in one behaviour.
MaxFaults == 1
\* Requests being handled at the same time.
MaxInFlight == 2
\* Recipe ids a client names in PUT and DELETE: 1 .. MaxId.
MaxId == 2

Reqs == 1..MaxReqs
TargetIds == 1..MaxId

(***************************************************************************)
(* JavaScript values of the request bodies.  A name is a string (a         *)
(* sequence of characters), a number, or undefined (the field is absent).  *)
(***************************************************************************)
Str(s) == [kind |-> "string", chars |-> s]
Undefined == [kind |-> "undefined", chars |-> <<>>]
Number == [kind |-> "number", chars |-> <<>>]
Ing(n, a) == [name |-> n, amount |-> a]
Body(t, items) == [title |-> t, items |-> items]

\* A loop that takes every entry, whatever its name.
TruthyAnyValue(v) == TRUE

\* if (ing.name): the empty string and undefined are falsy; the numbers and
\* the strings of the bodies below are not.
Truthy(v) == v.kind = "number" \/ (v.kind = "string" /\ Len(v.chars) > 0)

LowerChar(c) ==
  CASE c = "A" -> "a"
    [] c = "B" -> "b"
    [] c = "C" -> "c"
    [] OTHER -> c

\* The name as it was sent, not lower-cased.
ToLowerCaseIdentity(s) == s

\* ing.name.toLowerCase()
ToLowerCase(s) == [i \in 1..Len(s) |-> LowerChar(s[i])]

\* The request bodies the clients send.
BodyMenu ==
  { Body("t1", <<Ing(Str(<<"A">>), "1"), Ing(Str(<<"b">>), "2")>>),
    Body("t2", <<Ing(Str(<<"b">>), "2"), Ing(Str(<<>>), "5"),
                 Ing(Undefined, "6"), Ing(Str(<<"a">>), "3")>>),
    Body("t1", <<Ing(Str(<<"c">>), "4"), Ing(Number, "9")>>) }

\* Ingredient lists of every shape: empty, without a named entry, with a name
\* that is no string, with named entries.
ListMenu ==
  { Body("t3", <<>>),
    Body("t3", <<Ing(Str(<<>>), "5"), Ing(Undefined, "6")>>),
    Body("t3", <<Ing(Number, "9")>>),
    Body("t3", <<Ing(Str(<<"b">>), "2"), Ing(Str(<<"a">>), "3")>>) }

\* An element of myIngredients: a string or JSON null.
Cand(s) == [null |-> FALSE, chars |-> s]
Null == [null |-> TRUE, chars |-> <<>>]
Candidates(present, items) == [present |-> present, items |-> items]

CandMenu ==
  { Candidates(FALSE, <<>>),
    Candidates(TRUE, <<>>),
    Candidates(TRUE, <<Cand(<<"a">>)>>),
    Candidates(TRUE, <<Cand(<<"a">>), Cand(<<"c">>), Cand(<<"b">>)>>),
    Candidates(TRUE, <<Cand(<<"b">>), Null>>) }

VARIABLES
  recipes,             \* committed rows of recipes: [id, title]
  ingredients,         \* committed rows of ingredients: [id, name]
  recipe_ingredients,  \* committed rows: [lid, recipe_id, ingredient_id, amount]
  seq,                 \* the sequences of the serial columns (never rolled back)
  req,                 \* the handlers: position, inputs, open transaction
  faults               \* failures injected so far

vars == <<recipes, ingredients, recipe_ingredients, seq, req, faults>>

\* A transaction's uncommitted work and the row locks it holds.
NoTx ==
  [ open |-> FALSE,
    newRecipe |-> {},   \* recipes rows inserted
    hdr |-> FALSE,      \* the UPDATE matched the row: it is locked and rewritten
    ks |-> {},          \* recipes rows key-share locked by a foreign-key check
    insIngs |-> {},     \* ingredients rows inserted
    locked |-> {},      \* names of ingredients rows locked by DO UPDATE
    insLinks |-> {},    \* recipe_ingredients rows inserted
    delLinks |-> {},    \* recipe_ingredients rows deleted (and so locked)
    snap |-> {} ]       \* rows a waiting DELETE saw when it started

Idle ==
  [ kind |-> "none", pc |-> "idle", id |-> 0,
    body |-> Body("", <<>>), cands |-> Candidates(FALSE, <<>>),
    idx |-> 0, ingId |-> 0, rowCount |-> -1, connAlive |-> TRUE,
    client |-> "none", releases |-> 0,
    resp |-> <<>>, found |-> {}, tx |-> NoTx,
    committed |-> FALSE, began |-> FALSE,
    header |-> "",      \* getRecipe: the title of recipeResult.rows[0]
    linksThen |-> {},   \* history: the recipe's ingredient rows at the first query
    writesThen |-> 0 ]  \* history: the writes to the recipe committed by then

Init ==
  /\ recipes = {[id |-> 1, title |-> "t0"]}
  /\ ingredients = {[id |-> 1, name |-> <<"c">>], [id |-> 2, name |-> <<"a">>]}
  /\ recipe_ingredients =
       { [lid |-> 1, recipe_id |-> 1, ingredient_id |-> 1, amount |-> "7"],
         [lid |-> 2, recipe_id |-> 1, ingredient_id |-> 2, amount |-> "1"] }
  /\ seq = [recipe |-> 2, ingredient |-> 3, link |-> 3]
  /\ req = [r \in Reqs |-> Idle]
  /\ faults = 0

(***************************************************************************)
(* The handlers' own code.                                                 *)
(***************************************************************************)
Entry(q) == q.body.items[q.idx]

\* The name the upsert is given: ing.name.toLowerCase().
CurrentName(q) == ToLowerCase(Entry(q).name.chars)

\* for (const ing of ingredients) { if (ing.name) ... }: the next entry with a
\* truthy name, from entry i on; Len + 1 when there is none.
RECURSIVE NextIdx(_, _)
NextIdx(items, i) ==
  IF i > Len(items) THEN i
  ELSE IF Truthy(items[i].name) THEN i
  ELSE NextIdx(items, i + 1)

\* The handler runs on into the loop, from entry i, to its next await.  A
\* truthy name that is no string throws a TypeError (ing.name.toLowerCase is
\* not a function), which the catch block receives with the transaction open.
Continue(q, i) ==
  LET j == NextIdx(q.body.items, i)
  IN  [q EXCEPT !.idx = j,
                !.pc = IF j > Len(q.body.items) THEN "commit"
                       ELSE IF q.body.items[j].name.kind # "string" THEN "catch"
                       ELSE "upsert"]

\* res.status(code)...
Respond(q, code) == [q EXCEPT !.resp = Append(@, code)]

\* The handler has returned: its locals are gone.
Return(q) ==
  [q EXCEPT !.pc = "done", !.body = Idle.body, !.idx = 0, !.ingId = 0,
            !.rowCount = -1, !.tx = NoTx, !.connAlive = TRUE,
            !.linksThen = {}, !.writesThen = 0]

\* The answer without the rowCount test.
DeleteStatusAlwaysOk(rowCount) == 200

\* if (deleteOp.rowCount === 0) return res.status(404)...; res.json({message})
DeleteStatus(rowCount) == IF rowCount = 0 THEN 404 ELSE 200

\* The handler without its finally block.
FinallySkipped(q) == q

\* finally { client.release(); }
Finally(q) == [q EXCEPT !.client = "released", !.releases = @ + 1]

\* A catch block that ends the transaction with COMMIT.
CatchStatementCommit == "COMMIT"

\* catch (err) { await client.query('ROLLBACK'); ... }
CatchStatement == "ROLLBACK"

\* The clients of ojakhPool that are checked out.
Held == {r \in Reqs : req[r].client = "held"}

(***************************************************************************)
(* The database: what a transaction sees, what it waits for, what its      *)
(* COMMIT publishes.                                                        *)
(***************************************************************************)
Others(r) == {o \in Reqs \ {r} : req[o].tx.open}

\* COMMIT: the transaction's rows replace the committed ones.
PublishRecipes(q) ==
  { IF q.tx.hdr /\ x.id = q.id THEN [x EXCEPT !.title = q.body.title] ELSE x :
      x \in recipes } \cup q.tx.newRecipe

PublishIngredients(q) == ingredients \cup q.tx.insIngs

PublishLinks(q) ==
  {l \in recipe_ingredients : l.lid \notin q.tx.delLinks} \cup q.tx.insLinks

\* The statement that ends the transaction: COMMIT publishes, ROLLBACK (and
\* either statement on a transaction the server has already aborted) does not.
EndTx(q, stmt) ==
  IF stmt = "COMMIT" /\ q.tx.open
  THEN /\ recipes' = PublishRecipes(q)
       /\ ingredients' = PublishIngredients(q)
       /\ recipe_ingredients' = PublishLinks(q)
  ELSE UNCHANGED <<recipes, ingredients, recipe_ingredients>>

\* ON CONFLICT (name): the rows the unique index on ingredients.name finds.
ConflictRows(q, n) == {i \in ingredients \cup q.tx.insIngs : i.name = n}

\* The transactions an upsert of n waits for: those that inserted n or locked
\* its row (DO UPDATE) and have not ended yet.
UpsertBlockers(r, n) ==
  { o \in Others(r) :
      n \in req[o].tx.locked \/ \E i \in req[o].tx.insIngs : i.name = n }

\* UPDATE recipes ... WHERE id: waits for another UPDATE of the same row.  (A
\* key-share lock of a foreign-key check does not conflict with an UPDATE that
\* leaves the key alone.)
HeaderBlockers(r, id) ==
  {o \in Others(r) : req[o].tx.hdr /\ req[o].id = id}

\* DELETE FROM recipe_ingredients: waits for the transactions that have
\* deleted one of the rows it is to delete.
UnlinkBlockers(r, lids) ==
  {o \in Others(r) : req[o].tx.delLinks \cap lids # {}}

\* DELETE FROM recipes: waits for an UPDATE of the row, for a key-share lock
\* on it, and (its cascade) for deletions of the recipe's links.
DeleteBlockers(r, id) ==
  { o \in Others(r) :
      \/ req[o].tx.hdr /\ req[o].id = id
      \/ id \in req[o].tx.ks
      \/ \E l \in recipe_ingredients :
           l.recipe_id = id /\ l.lid \in req[o].tx.delLinks }

\* recipe_ingredients.recipe_id REFERENCES recipes(id): the check sees the
\* committed rows and the transaction's own.
ForeignKeyOk(q, rid) == \E x \in recipes \cup q.tx.newRecipe : x.id = rid

\* A foreign key without ON DELETE CASCADE.
NoCascade(links, id) == links

\* ON DELETE CASCADE: the links of a deleted recipe go with it.
Cascade(links, id) == {l \in links : l.recipe_id # id}

\* What request r is waiting for.
WaitsFor(r) ==
  LET q == req[r]
  IN  CASE q.pc = "upsert" -> UpsertBlockers(r, CurrentName(q))
        [] q.pc = "header" /\ q.kind = "update" -> HeaderBlockers(r, q.id)
        [] q.pc = "unlinkWait" -> UnlinkBlockers(r, q.tx.snap)
        [] q.pc = "query" /\ q.kind = "delete" -> DeleteBlockers(r, q.id)
        [] OTHER -> {}

RECURSIVE ReachFrom(_, _)
ReachFrom(S, n) ==
  IF n = 0 THEN S
  ELSE ReachFrom(S \cup UNION {WaitsFor(o) : o \in S}, n - 1)

\* The deadlock detector's test: r waits, directly or not, for itself.
InCycle(r) == r \in ReachFrom(WaitsFor(r), MaxReqs)

(***************************************************************************)
(* The requests.                                                           *)
(***************************************************************************)
InFlight == {o \in Reqs : req[o].kind # "none" /\ req[o].pc # "done"}

\* Request slot r takes the next request to arrive.
FirstIdle(r) ==
  /\ req[r].kind = "none"
  /\ \A o \in Reqs : o < r => req[o].kind # "none"
  /\ Cardinality(InFlight) < MaxInFlight

TxPcs == {"begin", "header", "unlink", "unlinkWait", "upsert", "link", "commit"}

\* POST /ojakh/recipes arrives and ojakhPool.connect() gives it a client.
CreateRecipe(r) ==
  /\ FirstIdle(r)
  /\ \E b \in BodyMenu :
       req' = [req EXCEPT ![r] =
                 [Idle EXCEPT !.kind = "create", !.pc = "begin", !.body = b,
                              !.client = "held"]]
  /\ UNCHANGED <<recipes, ingredients, recipe_ingredients, seq, faults>>

\* PUT /ojakh/recipes/:id arrives and ojakhPool.connect() gives it a client.
UpdateRecipe(r) ==
  /\ FirstIdle(r)
  /\ \E id \in TargetIds, b \in BodyMenu :
       req' = [req EXCEPT ![r] =
                 [Idle EXCEPT !.kind = "update", !.pc = "begin", !.id = id,
                              !.body = b, !.client = "held"]]
  /\ UNCHANGED <<recipes, ingredients, recipe_ingredients, seq, faults>>

\* PUT /ojakh/recipes/:id arrives with an ingredient list of any shape.
UpdateRecipeAnyList(r) ==
  /\ FirstIdle(r)
  /\ \E id \in TargetIds, b \in ListMenu :
       req' = [req EXCEPT ![r] =
                 [Idle EXCEPT !.kind = "update", !.pc = "begin", !.id = id,
                              !.body = b, !.client = "held"]]
  /\ UNCHANGED <<recipes, ingredients, recipe_ingredients, seq, faults>>

\* ojakhPool.connect() rejects: the await is outside the try block, so the
\* handler's promise rejects before any of its code has answered.
ConnectFails(r) ==
  /\ FirstIdle(r)
  /\ faults < MaxFaults
  /\ \E k \in {"create", "update"} :
       req' = [req EXCEPT ![r] = [Idle EXCEPT !.kind = k, !.pc = "rejected"]]
  /\ faults' = faults + 1
  /\ UNCHANGED <<recipes, ingredients, recipe_ingredients, seq>>

\* await client.query('BEGIN')
Begin(r) ==
  /\ req[r].pc = "begin"
  /\ req' = [req EXCEPT ![r] = [@ EXCEPT !.pc = "header", !.tx.open = TRUE,
                                         !.began = TRUE]]
  /\ UNCHANGED <<recipes, ingredients, recipe_ingredients, seq, faults>>

\* INSERT INTO recipes ... RETURNING id
InsertHeader(r) ==
  /\ req[r].pc = "header" /\ req[r].kind = "create"
  /\ LET q == req[r]
         row == [id |-> seq.recipe, title |-> q.body.title]
     IN  req' = [req EXCEPT ![r] =
                   Continue([q EXCEPT !.id = seq.recipe,
                                      !.tx.newRecipe = {row}], 1)]
  /\ seq' = [seq EXCEPT !.recipe = @ + 1]
  /\ UNCHANGED <<recipes, ingredients, recipe_ingredients, faults>>

\* UPDATE recipes SET ... WHERE id = $5: the row count is not looked at.
UpdateHeader(r) ==
  /\ req[r].pc = "header" /\ req[r].kind = "update"
  /\ HeaderBlockers(r, req[r].id) = {}
  /\ LET q == req[r]
         matched == \E x \in recipes : x.id = q.id
     IN  req' = [req EXCEPT ![r] = [q EXCEPT !.pc = "unlink",
                                            !.rowCount = IF matched THEN 1 ELSE 0,
                                            !.tx.hdr = matched]]
  /\ UNCHANGED <<recipes, ingredients, recipe_ingredients, seq, faults>>

\* DELETE FROM recipe_ingredients WHERE recipe_id = $1: the rows it is to delete.
UnlinkTargets(links, id) == {l.lid : l \in {x \in links : x.recipe_id = id}}

\* The DELETE starts: it deletes the rows its snapshot shows, or waits when
\* another transaction has deleted one of them.
Unlink(r) ==
  /\ req[r].pc = "unlink"
  /\ LET q == req[r]
         lids == UnlinkTargets(recipe_ingredients, q.id)
     IN  req' = [req EXCEPT ![r] =
                   IF UnlinkBlockers(r, lids) = {}
                   THEN Continue([q EXCEPT !.tx.delLinks = lids], 1)
                   ELSE [q EXCEPT !.pc = "unlinkWait", !.tx.snap = lids]]
  /\ UNCHANGED <<recipes, ingredients, recipe_ingredients, seq, faults>>

\* The waiting DELETE goes on: of the rows it saw it deletes those that are
\* still there; rows committed since it started are not in its snapshot.
UnlinkResume(r) ==
  /\ req[r].pc = "unlinkWait"
  /\ UnlinkBlockers(r, req[r].tx.snap) = {}
  /\ LET q == req[r]
         lids == q.tx.snap \cap {l.lid : l \in recipe_ingredients}
     IN  req' = [req EXCEPT ![r] =
                   Continue([q EXCEPT !.tx.delLinks = lids, !.tx.snap = {}], 1)]
  /\ UNCHANGED <<recipes, ingredients, recipe_ingredients, seq, faults>>

\* INSERT INTO ingredients (name) ... ON CONFLICT (name) DO UPDATE ... RETURNING id
Upsert(r) ==
  /\ req[r].pc = "upsert"
  /\ LET q == req[r]
         n == CurrentName(q)
         found == ConflictRows(q, n)
     IN  /\ UpsertBlockers(r, n) = {}
         /\ IF found # {}
            THEN LET row == CHOOSE i \in found : TRUE
                 IN  req' = [req EXCEPT ![r] =
                               [q EXCEPT !.pc = "link", !.ingId = row.id,
                                         !.tx.locked = @ \cup {n}]]
            ELSE req' = [req EXCEPT ![r] =
                           [q EXCEPT !.pc = "link", !.ingId = seq.ingredient,
                                     !.tx.insIngs = @ \cup
                                       {[id |-> seq.ingredient, name |-> n]}]]
  /\ seq' = [seq EXCEPT !.ingredient = @ + 1]
  /\ UNCHANGED <<recipes, ingredients, recipe_ingredients, faults>>

\* INSERT INTO recipe_ingredients (recipe_id, ingredient_id, amount)
Link(r) ==
  /\ req[r].pc = "link"
  /\ LET q == req[r]
         row == [lid |-> seq.link, recipe_id |-> q.id,
                 ingredient_id |-> q.ingId, amount |-> Entry(q).amount]
         own == \E x \in q.tx.newRecipe : x.id = q.id
     IN  IF ForeignKeyOk(q, q.id)
         THEN /\ req' = [req EXCEPT ![r] =
                    Continue([q EXCEPT !.tx.insLinks = @ \cup {row},
                                       !.tx.ks = IF own THEN @ ELSE @ \cup {q.id}],
                             q.idx + 1)]
              /\ seq' = [seq EXCEPT !.link = @ + 1]
         ELSE \* foreign-key violation: the server aborts the transaction
              /\ req' = [req EXCEPT ![r] = [q EXCEPT !.pc = "catch", !.tx = NoTx]]
              /\ seq' = seq
  /\ UNCHANGED <<recipes, ingredients, recipe_ingredients, faults>>

\* await client.query('COMMIT'); res.status(...).json(...); then finally.
Commit(r) ==
  /\ req[r].pc = "commit"
  /\ EndTx(req[r], "COMMIT")
  /\ req' = [req EXCEPT ![r] =
               Finally(Respond(Return([@ EXCEPT !.committed = TRUE]),
                               IF @.kind = "create" THEN 201 ELSE 200))]
  /\ UNCHANGED <<seq, faults>>

\* catch: await client.query('ROLLBACK'); res.status(500).send(...); finally.
Rollback(r) ==
  /\ req[r].pc = "catch" /\ req[r].connAlive
  /\ EndTx(req[r], CatchStatement)
  /\ req' = [req EXCEPT ![r] =
               Finally(Respond(Return(@), 500))]
  /\ UNCHANGED <<seq, faults>>

\* catch on a lost connection: the ROLLBACK itself throws, finally releases the
\* client and the handler's promise rejects; res.status(500) is never reached.
RollbackThrows(r) ==
  /\ req[r].pc = "catch" /\ ~req[r].connAlive
  /\ req' = [req EXCEPT ![r] =
               Finally([Return(@) EXCEPT !.pc = "rejected", !.connAlive = FALSE])]
  /\ UNCHANGED <<recipes, ingredients, recipe_ingredients, seq, faults>>

\* A statement fails (a constraint, a malformed value): the server aborts the
\* transaction at once, which drops its rows and its locks; the connection lives.
StatementError(r) ==
  /\ req[r].pc \in TxPcs
  /\ faults < MaxFaults
  /\ req' = [req EXCEPT ![r] = [@ EXCEPT !.pc = "catch", !.tx = NoTx]]
  /\ faults' = faults + 1
  /\ UNCHANGED <<recipes, ingredients, recipe_ingredients, seq>>

\* The connection is lost while a statement is awaited: the server aborts the
\* transaction.  A COMMIT on its way may or may not have been carried out.
ConnectionLost(r) ==
  /\ req[r].pc \in TxPcs \cup {"catch"}
  /\ req[r].connAlive
  /\ faults < MaxFaults
  /\ \E applied \in BOOLEAN :
       /\ applied => req[r].pc = "commit"
       /\ EndTx(req[r], IF applied THEN "COMMIT" ELSE "ROLLBACK")
       /\ req' = [req EXCEPT ![r] =
                    [@ EXCEPT !.pc = "catch", !.tx = NoTx, !.connAlive = FALSE,
                              !.committed = applied]]
  /\ faults' = faults + 1
  /\ UNCHANGED seq

\* The deadlock detector aborts a transaction that waits in a cycle.
DeadlockAbort(r) ==
  /\ req[r].tx.open
  /\ InCycle(r)
  /\ req' = [req EXCEPT ![r] = [@ EXCEPT !.pc = "catch", !.tx = NoTx]]
  /\ UNCHANGED <<recipes, ingredients, recipe_ingredients, seq, faults>>

\* The promise of an async handler has rejected.  Express 4 drops it (no
\* answer is ever sent); Express 5 hands it to its error handler (500).
HandlerRejected(r) ==
  /\ req[r].pc = "rejected"
  /\ \E answered \in BOOLEAN :
       req' = [req EXCEPT ![r] =
                 IF answered THEN Respond(Return(@), 500) ELSE Return(@)]
  /\ UNCHANGED <<recipes, ingredients, recipe_ingredients, seq, faults>>

\* DELETE /ojakh/recipes/:id arrives.
DeleteRecipe(r) ==
  /\ FirstIdle(r)
  /\ \E id \in TargetIds :
       req' = [req EXCEPT ![r] =
                 [Idle EXCEPT !.kind = "delete", !.pc = "query", !.id = id]]
  /\ UNCHANGED <<recipes, ingredients, recipe_ingredients, seq, faults>>

\* await ojakhPool.query("DELETE FROM recipes WHERE id = $1 RETURNING title"),
\* then 404 when rowCount is 0 and the message otherwise.
DeleteQuery(r) ==
  /\ req[r].pc = "query" /\ req[r].kind = "delete"
  /\ DeleteBlockers(r, req[r].id) = {}
  /\ LET q == req[r]
         rows == {x \in recipes : x.id = q.id}
     IN  /\ recipes' = recipes \ rows
         /\ recipe_ingredients' =
              IF rows = {} THEN recipe_ingredients
              ELSE Cascade(recipe_ingredients, q.id)
         /\ req' = [req EXCEPT ![r] =
                      Respond(Return(q), DeleteStatus(Cardinality(rows)))]
  /\ UNCHANGED <<ingredients, seq, faults>>

\* The DELETE fails: catch answers 500.
DeleteFails(r) ==
  /\ req[r].pc = "query" /\ req[r].kind = "delete"
  /\ faults < MaxFaults
  /\ req' = [req EXCEPT ![r] = Respond(Return(@), 500)]
  /\ faults' = faults + 1
  /\ UNCHANGED <<recipes, ingredients, recipe_ingredients, seq>>

\* i.name NOT IN (SELECT unnest($1::text[])) in SQL's three-valued logic: false
\* when an element equals x, else unknown when an element is NULL, else true.
NotIn(x, items) ==
  IF \E i \in 1..Len(items) : ~items[i].null /\ items[i].chars = x
  THEN "false"
  ELSE IF \E i \in 1..Len(items) : items[i].null THEN "null" ELSE "true"

\* SELECT r.* FROM recipes r WHERE NOT EXISTS (SELECT 1 FROM recipe_ingredients
\* ri JOIN ingredients i ON ri.ingredient_id = i.id WHERE ri.recipe_id = r.id
\* AND i.name NOT IN (...)): a WHERE keeps the rows whose condition is true.
FindQuery(items) ==
  { x.id : x \in
      { y \in recipes :
          ~ \E ri \in recipe_ingredients, i \in ingredients :
              /\ ri.ingredient_id = i.id
              /\ ri.recipe_id = y.id
              /\ NotIn(i.name, items) = "true" } }

\* POST /ojakh/recipes/find-by-ingredients: [] without a query when
\* myIngredients is absent or empty, else the rows of the query.
FindByIngredients(r) ==
  /\ FirstIdle(r)
  /\ \E c \in CandMenu :
       req' = [req EXCEPT ![r] =
                 Respond([Idle EXCEPT !.kind = "find", !.pc = "done",
                                      !.cands = c,
                                      !.found =
                                        IF ~c.present \/ Len(c.items) = 0
                                        THEN {} ELSE FindQuery(c.items)],
                         200)]
  /\ UNCHANGED <<recipes, ingredients, recipe_ingredients, seq, faults>>

\* The search query fails: catch answers 500.
FindFails(r) ==
  /\ FirstIdle(r)
  /\ faults < MaxFaults
  /\ \E c \in CandMenu :
       /\ c.present /\ Len(c.items) > 0
       /\ req' = [req EXCEPT ![r] =
                    Respond([Idle EXCEPT !.kind = "find", !.pc = "done",
                                         !.cands = c], 500)]
  /\ faults' = faults + 1
  /\ UNCHANGED <<recipes, ingredients, recipe_ingredients, seq>>

\* SELECT i.name, ri.amount FROM ingredients i JOIN recipe_ingredients ri ON
\* i.id = ri.ingredient_id WHERE ri.recipe_id = $1.  A result row carries the
\* lid of the link it comes from, so that equal rows stay apart.
IngredientsQuery(id) ==
  { [lid |-> ri.lid, name |-> i.name, amount |-> ri.amount] :
      <<i, ri>> \in { p \in ingredients \X recipe_ingredients :
                        p[1].id = p[2].ingredient_id /\ p[2].recipe_id = id } }

\* The updates and deletes of recipe id that have been committed.
WritesTo(id) ==
  Cardinality({ o \in Reqs :
                  /\ req[o].id = id
                  /\ \/ req[o].kind = "update" /\ req[o].committed
                     \/ req[o].kind = "delete" /\ req[o].resp = <<200>> })

\* GET /ojakh/recipes/:id arrives.
GetRecipe(r) ==
  /\ FirstIdle(r)
  /\ \E id \in TargetIds :
       req' = [req EXCEPT ![r] =
                 [Idle EXCEPT !.kind = "get", !.pc = "getHeader", !.id = id]]
  /\ UNCHANGED <<recipes, ingredients, recipe_ingredients, seq, faults>>

\* await ojakhPool.query("SELECT * FROM recipes WHERE id = $1"): 404 when there
\* is no row, else recipe = recipeResult.rows[0].
GetHeader(r) ==
  /\ req[r].pc = "getHeader"
  /\ LET q == req[r]
         rows == {x \in recipes : x.id = q.id}
     IN  req' = [req EXCEPT ![r] =
                   IF rows = {} THEN Respond(Return(q), 404)
                   ELSE [q EXCEPT !.pc = "getIngredients",
                                  !.header = (CHOOSE x \in rows : TRUE).title,
                                  !.linksThen = IngredientsQuery(q.id),
                                  !.writesThen = WritesTo(q.id)]]
  /\ UNCHANGED <<recipes, ingredients, recipe_ingredients, seq, faults>>

\* await ojakhPool.query(ingredientsQuery, [id]); recipe.ingredients = its rows;
\* res.json(recipe).
GetIngredients(r) ==
  /\ req[r].pc = "getIngredients"
  /\ LET q == req[r]
     IN  req' = [req EXCEPT ![r] =
                   Respond(Return([q EXCEPT !.found = IngredientsQuery(q.id)]),
                           200)]
  /\ UNCHANGED <<recipes, ingredients, recipe_ingredients, seq, faults>>

\* One of the two queries fails: catch answers 500.
GetFails(r) ==
  /\ req[r].pc \in {"getHeader", "getIngredients"}
  /\ faults < MaxFaults
  /\ req' = [req EXCEPT ![r] = Respond(Return([@ EXCEPT !.header = ""]), 500)]
  /\ faults' = faults + 1
  /\ UNCHANGED <<recipes, ingredients, recipe_ingredients, seq>>

Next ==
  \E r \in Reqs :
    \/ CreateRecipe(r)
    \/ UpdateRecipe(r)
    \/ ConnectFails(r)
    \/ Begin(r)
    \/ InsertHeader(r)
    \/ UpdateHeader(r)
    \/ Unlink(r)
    \/ UnlinkResume(r)
    \/ Upsert(r)
    \/ Link(r)
    \/ Commit(r)
    \/ Rollback(r)
    \/ RollbackThrows(r)
    \/ StatementError(r)
    \/ ConnectionLost(r)
    \/ DeadlockAbort(r)
    \/ HandlerRejected(r)
    \/ DeleteRecipe(r)
    \/ DeleteQuery(r)
    \/ DeleteFails(r)
    \/ FindByIngredients(r)
    \/ FindFails(r)

Spec == Init /\ [][Next]_vars

\* Creates, deletes and updates with ingredient lists of every shape, when no
\* statement fails for a reason of its own and no connection is lost.
NextUpdate ==
  \E r \in Reqs :
    \/ CreateRecipe(r)
    \/ UpdateRecipeAnyList(r)
    \/ Begin(r)
    \/ InsertHeader(r)
    \/ UpdateHeader(r)
    \/ Unlink(r)
    \/ UnlinkResume(r)
    \/ Upsert(r)
    \/ Link(r)
    \/ Commit(r)
    \/ Rollback(r)
    \/ DeadlockAbort(r)
    \/ DeleteRecipe(r)
    \/ DeleteQuery(r)

UpdateSpec == Init /\ [][NextUpdate]_vars

\* Reads of one recipe while creates, updates and deletes run.
NextGet ==
  \E r \in Reqs :
    \/ GetRecipe(r)
    \/ GetHeader(r)
    \/ GetIngredients(r)
    \/ GetFails(r)
    \/ CreateRecipe(r)
    \/ UpdateRecipe(r)
    \/ Begin(r)
    \/ InsertHeader(r)
    \/ UpdateHeader(r)
    \/ Unlink(r)
    \/ UnlinkResume(r)
    \/ Upsert(r)
    \/ Link(r)
    \/ Commit(r)
    \/ Rollback(r)
    \/ DeadlockAbort(r)
    \/ DeleteRecipe(r)
    \/ DeleteQuery(r)

GetSpec == Init /\ [][NextGet]_vars

(***************************************************************************)
(* The properties.  Their vocabulary is defined here on its own, not with  *)
(* the operators of the handlers above.                                    *)
(***************************************************************************)
RecipeIds(rs) == {x.id : x \in rs}
IngredientIds(is) == {x.id : x \in is}
LinksOf(links, id) == {l \in links : l.recipe_id = id}
NameOfId(is, iid) == (CHOOSE i \in is : i.id = iid).name

UpperChar(c) ==
  CASE c = "a" -> "A"
    [] c = "b" -> "B"
    [] c = "c" -> "C"
    [] OTHER -> c

SameIgnoringCase(a, b) ==
  Len(a) = Len(b) /\ \A i \in 1..Len(a) : UpperChar(a[i]) = UpperChar(b[i])

IsLowerCase(a) == \A i \in 1..Len(a) : a[i] \notin {"A", "B", "C"}

\* An entry of the ingredient list with a non-empty name.
HasName(e) == e.name.kind # "undefined" /\ ~(e.name.kind = "string" /\ e.name.chars = <<>>)

\* Link l is the link of entry e: the lower-cased name and the amount.
LinkOfEntry(is, l, e) ==
  /\ l.amount = e.amount
  /\ l.ingredient_id \in IngredientIds(is)
  /\ IsLowerCase(NameOfId(is, l.ingredient_id))
  /\ SameIgnoringCase(NameOfId(is, l.ingredient_id), e.name.chars)

\* The links of recipe id are exactly one link per entry with a non-empty name.
ExactLinks(links, is, id, items) ==
  LET ls == LinksOf(links, id)
      named == {i \in 1..Len(items) : HasName(items[i])}
  IN  /\ Cardinality(ls) = Cardinality(named)
      /\ \E f \in [named -> ls] :
           /\ \A i, j \in named : i # j => f[i] # f[j]
           /\ \A i \in named : LinkOfEntry(is, f[i], items[i])

\* C1: createRecipe is all-or-nothing.  The step that carries out its COMMIT puts
\* the header and one link per named entry into the committed state; no other
\* step of the request changes the committed state, and until the COMMIT the
\* committed state holds no header and no link of the new recipe id.
C1_CreateAllOrNothing ==
  [][\A r \in Reqs :
       (req'[r].kind = "create" /\ req'[r] # req[r]) =>
         /\ IF ~req[r].committed /\ req'[r].committed
            THEN /\ req[r].id \in RecipeIds(recipes')
                 /\ ExactLinks(recipe_ingredients', ingredients', req[r].id,
                               req[r].body.items)
            ELSE UNCHANGED <<recipes, ingredients, recipe_ingredients>>
         /\ ~req'[r].committed =>
              /\ req'[r].id \notin RecipeIds(recipes')
              /\ LinksOf(recipe_ingredients', req'[r].id) = {}]_vars

\* A create whose second link insert failed: the server has dropped the header,
\* the first ingredient's link and the transaction, and nothing of it is committed.
C1_Witness ==
  \E r \in Reqs :
    /\ req[r].kind = "create" /\ req[r].pc = "catch" /\ req[r].idx = 2
    /\ req[r].tx = NoTx /\ req[r].id # 0
    /\ req[r].id \notin RecipeIds(recipes)

\* C2: the replacement of a recipe's links by updateRecipe is atomic.  A step of an
\* update changes the committed links of its recipe only when it carries out the
\* COMMIT, and then to exactly the complete new set.
C2_UpdateLinksAtomic ==
  [][\A r \in Reqs :
       (req'[r].kind = "update" /\ req'[r] # req[r]) =>
         \/ LinksOf(recipe_ingredients', req'[r].id)
              = LinksOf(recipe_ingredients, req'[r].id)
         \/ /\ ~req[r].committed /\ req'[r].committed
            /\ ExactLinks(recipe_ingredients', ingredients', req[r].id,
                          req[r].body.items)]_vars

\* C5: after a successful createRecipe or updateRecipe with list L the links of the
\* recipe are exactly one link (lower-cased name, amount) per named entry of L.
C5_LinksMatchList ==
  [][\A r \in Reqs :
       ( /\ req'[r].kind \in {"create", "update"}
         /\ req[r].resp = <<>>
         /\ req'[r].resp \in {<<200>>, <<201>>} ) =>
         ExactLinks(recipe_ingredients', ingredients', req[r].id,
                    req[r].body.items)]_vars

\* No two rows of ingredients have names that are equal when case is ignored.
CaseInsensitiveUnique(is) ==
  \A i, j \in is : i # j => ~SameIgnoringCase(i.name, j.name)

\* C3: ingredient names are unique under case-insensitive comparison in every
\* committed state, and an upsert of a name that exists (ignoring case) yields the
\* existing row's id and creates no row.
C3_IngredientNamesUnique ==
  [][/\ CaseInsensitiveUnique(ingredients)
     /\ CaseInsensitiveUnique(ingredients')
     /\ \A r \in Reqs :
          (req[r].pc = "upsert" /\ req'[r].pc = "link") =>
            \A i \in ingredients :
              SameIgnoringCase(i.name, Entry(req[r]).name.chars) =>
                /\ req'[r].ingId = i.id
                /\ req'[r].tx.insIngs = req[r].tx.insIngs]_vars

\* An upsert of "A" has yielded the id of the committed row "a" while another
\* transaction waits to upsert the same name.
C3_Witness ==
  \E r, o \in Reqs :
    /\ r # o
    /\ req[r].pc = "link" /\ Entry(req[r]).name.chars = <<"A">>
    /\ [id |-> req[r].ingId, name |-> <<"a">>] \in ingredients
    /\ req[o].pc = "upsert" /\ r \in UpsertBlockers(o, <<"a">>)

\* C4: every row of recipe_ingredients references a recipe row and an ingredient
\* row that exist.
C4_NoDanglingLinks ==
  \A l \in recipe_ingredients :
    /\ l.recipe_id \in RecipeIds(recipes)
    /\ l.ingredient_id \in IngredientIds(ingredients)

\* An update of a recipe that a delete has removed has failed on the foreign key.
C4_Witness ==
  \E u, d \in Reqs :
    /\ faults = 0
    /\ req[u].kind = "update" /\ req[u].pc = "done" /\ req[u].resp = <<500>>
    /\ req[d].kind = "delete" /\ req[d].resp = <<200>> /\ req[d].id = req[u].id
    /\ req[u].id \notin RecipeIds(recipes)

\* The names myIngredients holds, and the names a recipe is linked to.
CandidateNames(c) == {c.items[i].chars : i \in {j \in 1..Len(c.items) : ~c.items[j].null}}
LinkedNames(id) ==
  {NameOfId(ingredients, l.ingredient_id) : l \in LinksOf(recipe_ingredients, id)}

\* C6: findRecipesByIngredients returns nothing for an absent or empty list, and
\* otherwise exactly the recipes whose linked names all are in the list.
C6_FindReturnsCoveredRecipes ==
  [][\A r \in Reqs :
       (req[r].kind = "none" /\ req'[r].kind = "find" /\ req'[r].resp = <<200>>) =>
         req'[r].found =
           IF ~req'[r].cands.present \/ req'[r].cands.items = <<>> THEN {}
           ELSE {id \in RecipeIds(recipes) :
                   LinkedNames(id) \subseteq CandidateNames(req'[r].cands)}]_vars

\* C7: a client that createRecipe or updateRecipe took from the pool is released
\* exactly once, and is not held once the handler has ended.
C7_ClientReleasedOnce ==
  \A r \in Reqs :
    req[r].kind \in {"create", "update"} =>
      /\ req[r].releases <= 1
      /\ req[r].client = "held" => req[r].releases = 0
      /\ req[r].client = "released" => req[r].releases = 1
      /\ req[r].pc \in {"rejected", "done"} => r \notin Held

\* The ROLLBACK itself has failed, and the client is back in the pool.
C7_Witness ==
  \E r \in Reqs :
    /\ req[r].kind \in {"create", "update"}
    /\ req[r].pc = "rejected" /\ ~req[r].connAlive
    /\ req[r].client = "released" /\ req[r].releases = 1

\* C8: every failure of createRecipe or updateRecipe reaches the caller as one
\* response, a 500: a handler that has ended has answered once, and with 500
\* unless its COMMIT went through.
C8_FailuresAnswered500 ==
  \A r \in Reqs :
    (req[r].kind \in {"create", "update"} /\ req[r].pc = "done") =>
      /\ Len(req[r].resp) = 1
      /\ req[r].resp # <<500>> => req[r].committed

\* C9: a delete that succeeds removes the recipe and its links and nothing else,
\* and no link references the id afterwards; a delete of an id with no row
\* answers 404 and changes nothing.
C9_DeleteCascades ==
  [][\A r \in Reqs :
       req'[r].kind = "delete" =>
         /\ (req[r].pc = "query" /\ req'[r].pc = "done") =>
              IF req[r].id \in RecipeIds(recipes) /\ req'[r].resp # <<500>>
              THEN /\ req'[r].resp = <<200>>
                   /\ recipes' = {x \in recipes : x.id # req[r].id}
                   /\ recipe_ingredients' =
                        recipe_ingredients \ LinksOf(recipe_ingredients, req[r].id)
                   /\ ingredients' = ingredients
              ELSE /\ req'[r].resp \in {<<404>>, <<500>>}
                   /\ UNCHANGED <<recipes, ingredients, recipe_ingredients>>
         /\ req'[r].resp = <<200>> =>
              LinksOf(recipe_ingredients', req'[r].id) = {}]_vars

\* Recipe 1 and its two links are deleted; recipe 2 keeps its links.
C9_Witness ==
  \E d \in Reqs :
    /\ req[d].kind = "delete" /\ req[d].resp = <<200>> /\ req[d].id = 1
    /\ LinksOf(recipe_ingredients, 1) = {}
    /\ LinksOf(recipe_ingredients, 2) # {}
    /\ Cardinality(ingredients) >= 3

\* C10: a create or update that has started its transaction ends with its
\* response sent: once its handler has ended, the response is there.
C10_StartedRequestsAnswer ==
  \A r \in Reqs :
    (req[r].began /\ req[r].pc = "done") => Len(req[r].resp) = 1

\* An update answers: the step that sends its response.
Answers(r) == req[r].kind = "update" /\ req[r].resp = <<>> /\ req'[r].resp # <<>>

\* C11 as the specification states it: an update whose UPDATE matched no row
\* commits and answers 200, for every ingredient list.
C11_MissingIdSucceeds ==
  [][\A r \in Reqs :
       (Answers(r) /\ req[r].rowCount = 0) =>
         req'[r].resp = <<200>> /\ req'[r].committed]_vars

\* C11: an update whose UPDATE matched no row commits and answers 200 when its
\* list has no named entry.  With a named entry it answers 200 only when every
\* name is a string and a recipe with that id has been committed in the
\* meantime, and 500 otherwise: the link insert fails on the foreign key.
C11_MissingIdAnswer ==
  [][\A r \in Reqs :
       (Answers(r) /\ req[r].rowCount = 0) =>
         LET items == req[r].body.items
             named == {i \in 1..Len(items) : HasName(items[i])}
         IN  /\ req'[r].resp \in {<<200>>, <<500>>}
             /\ req'[r].resp = <<200>> <=> req'[r].committed
             /\ named = {} => req'[r].resp = <<200>>
             /\ (named # {} /\ req'[r].resp = <<200>>) =>
                  /\ req[r].id \in RecipeIds(recipes)
                  /\ \A i \in named : items[i].name.kind = "string"]_vars

\* An update of id 2, which no request has created, has failed at its first
\* link insert, on the foreign key.
C11_Witness ==
  \E r \in Reqs :
    /\ req[r].kind = "update" /\ req[r].rowCount = 0 /\ req[r].pc = "catch"
    /\ req[r].id = 2 /\ seq.recipe = 2
    /\ req[r].idx = 1 /\ Entry(req[r]).name = Str(<<"b">>)
    /\ req[r].tx = NoTx /\ req[r].ingId # 0

\* The committed version of recipe id: its header and its ingredient rows.
VersionNow(id) ==
  [ exists |-> id \in RecipeIds(recipes),
    titles |-> {x.title : x \in {y \in recipes : y.id = id}},
    rows |-> { [lid |-> l.lid, name |-> NameOfId(ingredients, l.ingredient_id),
                amount |-> l.amount] : l \in LinksOf(recipe_ingredients, id) } ]

\* C12: a 200 response of getRecipe shows one committed version of the recipe.
\* When at most one write to the recipe was committed between the two queries,
\* the versions there have been are the one at the first query and the one at
\* the second: the response is the header and the rows of one of them.
C12_GetReadsOneVersion ==
  [][\A r \in Reqs :
       ( /\ req[r].kind = "get" /\ req[r].pc = "getIngredients"
         /\ req'[r].resp = <<200>>
         /\ WritesTo(req[r].id) <= req[r].writesThen + 1 ) =>
         \/ req'[r].found = req[r].linksThen
         \/ /\ VersionNow(req[r].id).exists
            /\ VersionNow(req[r].id).titles = {req'[r].header}
            /\ VersionNow(req[r].id).rows = req'[r].found]_vars

====
